---- MODULE Spec2Model ----
(***************************************************************************)
(* Task orchestration, status streaming and claim graph store of the       *)
(* Danish Medical Platform API (app/main.py, app/agents.py, app/db.py,     *)
(* app/models.py).                                                         *)
(*                                                                         *)
(* Spec      : the task registry, run_crew_task, the status stream and     *)
(*             the report endpoint.                                        *)
(* GraphSpec : GraphManager, called sequentially.                          *)
(***************************************************************************)
EXTENDS Integers, Sequences, FiniteSets, TLC

\* ------------------------------------------------------------------ bounds
\* Number of task ids uuid4 can hand out in a run of the model.
MaxTasks == 2

TaskIds == 1..MaxTasks

\* Request bodies: "" stands for a missing or empty topic.
Topics == {"", "hypertension"}

\* What crew.kickoff() can return, and what the failing calls raise.
Results == {"report"}
KickoffErrors == {"llm down"}
StoreErrors == {"chroma down"}
StrErrors == {"str failed"}

\* ------------------------------------------------------- models.ResearchTask
NoResult == [present |-> FALSE, output |-> ""]

\* {"output": str(result)}
ResultPayload(r) == [present |-> TRUE, output |-> r]

\* ResearchTask(task_id=..., topic=...): the field defaults of the model.
ResearchTask(id, topic) ==
    [task_id |-> id, topic |-> topic, status |-> "pending",
     logs |-> <<>>, result |-> NoResult]

\* Log lines: the literal text and the interpolated part.
StartLine == [text |-> "Starting research crew...", arg |-> ""]
SuccessLine == [text |-> "Research completed successfully.", arg |-> ""]
ErrorLineNoReason(e) == [text |-> "Error: ", arg |-> ""]

ErrorLine(e) == [text |-> "Error: ", arg |-> e]

\* Terminal lists that stop the stream too early, or not for a failed task.
TerminalWithRunning == {"running", "completed", "failed"}
TerminalCompletedOnly == {"completed"}

Terminal == {"completed", "failed"}

\* ------------------------------------------------------------------- state
VARIABLES
    tasks,       \* main.tasks: task id -> ResearchTask
    issued,      \* the task ids returned by POST /research, in order
    response,    \* the record the last accepted POST /research returned
    pc,          \* per task id: the next line of run_crew_task / crew.run
    loop,        \* the run_crew_task coroutine holding the event loop, or 0
    res,         \* per task id: the value crew.kickoff() returned
    exc,         \* per task id: the exception being handled
    collection,  \* db.collection: the documents added, in order
    gen,         \* the subscriber's event_generator frame
    events,      \* the events the subscriber has received, in order
    report,      \* what the last GET /report read
    nx_graph,    \* GraphManager.nx_graph
    graph_file,  \* graph_data.pkl
    neo4j_driver,\* GraphManager.neo4j_driver
    neo4j_init,  \* how the Neo4j connection of __init__ went
    ncalls,      \* number of add_claim / add_contradiction calls so far
    repeated,    \* the last two calls were add_claim on the same (source, claim)
    last_call,   \* the last GraphManager call and how it ended
    thr          \* per worker thread: its GraphManager call in progress

taskVars == <<tasks, issued, response, pc, loop, res, exc, collection,
              gen, events, report>>
graphVars == <<nx_graph, graph_file, neo4j_driver, neo4j_init, ncalls,
               repeated, last_call, thr>>
vars == <<tasks, issued, response, pc, loop, res, exc, collection,
          gen, events, report, nx_graph, graph_file, neo4j_driver,
          neo4j_init, ncalls, repeated, last_call, thr>>

\* ------------------------------------------------------------------ helpers
Range(s) == {s[i] : i \in 1..Len(s)}

\* tasks[id].<field> = value
SetField(id, field, value) ==
    [tasks EXCEPT ![id] = [tasks[id] EXCEPT ![field] = value]]

\* tasks[id].logs.append(line)
AppendLog(id, line) ==
    [tasks EXCEPT ![id] = [tasks[id] EXCEPT !.logs = Append(@, line)]]

NoGen == [pc |-> "none", task |-> 0, last_log_idx |-> 0, slice |-> <<>>]
NoReport == [task_id |-> 0, status |-> "", logs |-> <<>>, result |-> NoResult]
NoResponse == [code |-> 0, task_id |-> 0, status |-> "", logs |-> <<>>,
               result |-> NoResult]

\* ------------------------------------------------------------ POST /research
\* uuid.uuid4(): an id no earlier call returned. The ids are opaque, so the
\* model hands them out in the order 1, 2, ...
Uuid4Reused == {1}

Uuid4 == {Len(issued) + 1}

\* tasks[task_id] = task
Register(id, task) ==
    [x \in DOMAIN tasks \cup {id} |-> IF x = id THEN task ELSE tasks[x]]

Answer(code, task) ==
    [code |-> code, task_id |-> task.task_id, status |-> task.status,
     logs |-> task.logs, result |-> task.result]

\* start_research with a missing or empty topic: HTTP 400, nothing is created.
start_research_rejected(topic) ==
    /\ loop = 0
    /\ topic = ""
    /\ UNCHANGED <<tasks, issued, response, pc, loop, res, exc, collection,
                   gen, events, report>>
    /\ UNCHANGED graphVars

\* start_research: create the record, schedule run_crew_task, return the record.
start_research(topic) ==
    /\ loop = 0
    /\ topic # ""
    /\ Len(issued) < MaxTasks
    /\ \E id \in Uuid4 :
         LET task == ResearchTask(id, topic) IN
         /\ tasks' = Register(id, task)
         /\ pc' = [pc EXCEPT ![id] = "l32"]
         /\ issued' = Append(issued, id)
         /\ response' = Answer(200, task)
    /\ UNCHANGED <<loop, res, exc, collection, gen, events, report>>
    /\ UNCHANGED graphVars

\* ------------------------------------------------------------ run_crew_task
\* The coroutine runs on the event loop: the lines between two awaits run
\* without another coroutine in between (loop = t), while threads (crew.run,
\* get_report) run at any time.
RunningStatus == "running"
CompletedStatus == "completed"
FailedStatus == "failed"

\* line 32: tasks[task_id].status = "running"
Line32(t) ==
    /\ pc[t] = "l32" /\ loop = 0
    /\ tasks' = SetField(t, "status", RunningStatus)
    /\ pc' = [pc EXCEPT ![t] = "l33"]
    /\ loop' = t
    /\ UNCHANGED <<issued, response, res, exc, collection, gen, events, report>>
    /\ UNCHANGED graphVars

\* line 33: tasks[task_id].logs.append("Starting research crew...")
Line33(t) ==
    /\ pc[t] = "l33" /\ loop = t
    /\ tasks' = AppendLog(t, StartLine)
    /\ pc' = [pc EXCEPT ![t] = "l40"]
    /\ UNCHANGED <<issued, response, loop, res, exc, collection, gen, events,
                   report>>
    /\ UNCHANGED graphVars

\* lines 36-40: crew = ResearchCrew(task_id); await asyncio.to_thread(crew.run, topic)
\* The worker thread starts crew.run and the coroutine gives up the event loop.
Line40(t) ==
    /\ pc[t] = "l40" /\ loop = t
    /\ pc' = [pc EXCEPT ![t] = "kickoff"]
    /\ loop' = 0
    /\ UNCHANGED <<tasks, issued, response, res, exc, collection, gen, events,
                   report>>
    /\ UNCHANGED graphVars

\* ------------------------------------------------------- ResearchCrew.run
\* result = crew.kickoff() returns.
KickoffReturns(t) ==
    /\ pc[t] = "kickoff"
    /\ \E r \in Results : res' = [res EXCEPT ![t] = r]
    /\ pc' = [pc EXCEPT ![t] = "add"]
    /\ UNCHANGED <<tasks, issued, response, loop, exc, collection, gen, events,
                   report>>
    /\ UNCHANGED graphVars

\* crew.kickoff() raises: crew.run raises, and so does the await of line 40.
KickoffRaises(t) ==
    /\ pc[t] = "kickoff"
    /\ \E e \in KickoffErrors : exc' = [exc EXCEPT ![t] = e]
    /\ pc' = [pc EXCEPT ![t] = "l48"]
    /\ UNCHANGED <<tasks, issued, response, loop, res, collection, gen, events,
                   report>>
    /\ UNCHANGED graphVars

\* The document of collection.add(documents=[str(result)], metadatas=[...], ids=[...])
Document(t, topic, r) ==
    [id |-> t, task_id |-> t, topic |-> topic, document |-> r]

\* collection.add(...) succeeds; crew.run returns result.
CollectionAdd(t) ==
    /\ pc[t] = "add"
    /\ collection' = Append(collection, Document(t, tasks[t].topic, res[t]))
    /\ pc' = [pc EXCEPT ![t] = "l42"]
    /\ UNCHANGED <<tasks, issued, response, loop, res, exc, gen, events, report>>
    /\ UNCHANGED graphVars

\* collection.add(...) raises without storing: crew.run raises.
CollectionAddRaises(t) ==
    /\ pc[t] = "add"
    /\ \E e \in StoreErrors : exc' = [exc EXCEPT ![t] = e]
    /\ pc' = [pc EXCEPT ![t] = "l48"]
    /\ UNCHANGED <<tasks, issued, response, loop, res, collection, gen, events,
                   report>>
    /\ UNCHANGED graphVars

\* ------------------------------------------- run_crew_task after the await
\* line 42: tasks[task_id].status = "completed"
Line42(t) ==
    /\ pc[t] = "l42" /\ loop = 0
    /\ tasks' = SetField(t, "status", CompletedStatus)
    /\ pc' = [pc EXCEPT ![t] = "l43"]
    /\ loop' = t
    /\ UNCHANGED <<issued, response, res, exc, collection, gen, events, report>>
    /\ UNCHANGED graphVars

\* line 43: tasks[task_id].result = {"output": str(result)}
Line43(t) ==
    /\ pc[t] = "l43" /\ loop = t
    /\ tasks' = SetField(t, "result", ResultPayload(res[t]))
    /\ pc' = [pc EXCEPT ![t] = "l44"]
    /\ UNCHANGED <<issued, response, loop, res, exc, collection, gen, events,
                   report>>
    /\ UNCHANGED graphVars

\* line 43, str(result) raises: control goes to the except clause of line 46.
Line43Raises(t) ==
    /\ pc[t] = "l43" /\ loop = t
    /\ \E e \in StrErrors : exc' = [exc EXCEPT ![t] = e]
    /\ pc' = [pc EXCEPT ![t] = "l48"]
    /\ UNCHANGED <<tasks, issued, response, loop, res, collection, gen, events,
                   report>>
    /\ UNCHANGED graphVars

\* line 44: tasks[task_id].logs.append("Research completed successfully.")
Line44(t) ==
    /\ pc[t] = "l44" /\ loop = t
    /\ tasks' = AppendLog(t, SuccessLine)
    /\ pc' = [pc EXCEPT ![t] = "done"]
    /\ loop' = 0
    /\ UNCHANGED <<issued, response, res, exc, collection, gen, events, report>>
    /\ UNCHANGED graphVars

\* lines 46-48: except Exception as e: ...; tasks[task_id].status = "failed"
\* Entered from the await (loop = 0) or from line 43 (loop = t).
Line48(t) ==
    /\ pc[t] = "l48" /\ loop \in {0, t}
    /\ tasks' = SetField(t, "status", FailedStatus)
    /\ pc' = [pc EXCEPT ![t] = "l49"]
    /\ loop' = t
    /\ UNCHANGED <<issued, response, res, exc, collection, gen, events, report>>
    /\ UNCHANGED graphVars

\* line 49: tasks[task_id].logs.append(f"Error: {str(e)}")
Line49(t) ==
    /\ pc[t] = "l49" /\ loop = t
    /\ tasks' = AppendLog(t, ErrorLine(exc[t]))
    /\ pc' = [pc EXCEPT ![t] = "done"]
    /\ loop' = 0
    /\ UNCHANGED <<issued, response, res, exc, collection, gen, events, report>>
    /\ UNCHANGED graphVars

\* --------------------------------------- GET /status/{task_id}: the stream
LogEvent(line) == [event |-> "log", data |-> line]
StatusEvent(status) == [event |-> "status", data |-> [text |-> status, arg |-> ""]]
ResultEvent(result) == [event |-> "result", data |-> [text |-> "result", arg |-> result.output]]

\* line 86: if task.result (None is falsy, a one-key dict is truthy)
ResultTruthyAlways(result) == TRUE

ResultTruthy(result) == result.present

\* line 81: last_log_idx = len(task.logs), read when the for loop has ended
NextLogIdx(g) == Len(tasks[g.task].logs)

\* stream_status: the task id is known, the generator is created (line 71).
stream_status(t) ==
    /\ loop = 0
    /\ gen.pc = "none"
    /\ t \in DOMAIN tasks
    /\ gen' = [pc |-> "l73", task |-> t, last_log_idx |-> 0, slice |-> <<>>]
    /\ UNCHANGED <<tasks, issued, response, pc, loop, res, exc, collection,
                   events, report>>
    /\ UNCHANGED graphVars

\* lines 84-90 with the frame g: yield the status event, or sleep.
StatusCheck(g) ==
    IF tasks[g.task].status \in Terminal
    THEN /\ events' = Append(events, StatusEvent(tasks[g.task].status))
         /\ gen' = [g EXCEPT !.pc = "yield_status"]
    ELSE /\ events' = events
         /\ gen' = [g EXCEPT !.pc = "sleep"]

\* lines 73-80 (and 84-90 when there is no new log): one pass of the loop
\* up to its first suspension.
GenPoll ==
    /\ loop = 0
    /\ gen.pc = "l73"
    /\ IF gen.task \notin DOMAIN tasks
       THEN \* lines 73-75: task = tasks.get(task_id); if not task: break
            /\ events' = events
            /\ gen' = [gen EXCEPT !.pc = "ended"]
       ELSE LET logs == tasks[gen.task].logs IN
            IF Len(logs) > gen.last_log_idx
            THEN LET slice == SubSeq(logs, gen.last_log_idx + 1, Len(logs)) IN
                 /\ events' = Append(events, LogEvent(Head(slice)))
                 /\ gen' = [gen EXCEPT !.pc = "yield_log", !.slice = Tail(slice)]
            ELSE StatusCheck(gen)
    /\ UNCHANGED <<tasks, issued, response, pc, loop, res, exc, collection,
                   report>>
    /\ UNCHANGED graphVars

\* The consumer resumes the generator after a log event: the next line of the
\* slice (line 80), or lines 81-90.
GenResumeLog ==
    /\ loop = 0
    /\ gen.pc = "yield_log"
    /\ IF gen.slice # <<>>
       THEN /\ events' = Append(events, LogEvent(Head(gen.slice)))
            /\ gen' = [gen EXCEPT !.slice = Tail(gen.slice)]
       ELSE StatusCheck([gen EXCEPT !.last_log_idx = NextLogIdx(gen)])
    /\ UNCHANGED <<tasks, issued, response, pc, loop, res, exc, collection,
                   report>>
    /\ UNCHANGED graphVars

\* Resumed after the status event: lines 86-88.
GenResumeStatus ==
    /\ loop = 0
    /\ gen.pc = "yield_status"
    /\ IF ResultTruthy(tasks[gen.task].result)
       THEN /\ events' = Append(events, ResultEvent(tasks[gen.task].result))
            /\ gen' = [gen EXCEPT !.pc = "yield_result"]
       ELSE /\ events' = events
            /\ gen' = [gen EXCEPT !.pc = "ended"]
    /\ UNCHANGED <<tasks, issued, response, pc, loop, res, exc, collection,
                   report>>
    /\ UNCHANGED graphVars

\* Resumed after the result event: line 88, break.
GenResumeResult ==
    /\ loop = 0
    /\ gen.pc = "yield_result"
    /\ gen' = [gen EXCEPT !.pc = "ended"]
    /\ UNCHANGED <<tasks, issued, response, pc, loop, res, exc, collection,
                   events, report>>
    /\ UNCHANGED graphVars

\* line 90: await asyncio.sleep(1) is over.
GenWake ==
    /\ loop = 0
    /\ gen.pc = "sleep"
    /\ gen' = [gen EXCEPT !.pc = "l73"]
    /\ UNCHANGED <<tasks, issued, response, pc, loop, res, exc, collection,
                   events, report>>
    /\ UNCHANGED graphVars

\* ------------------------------------------------- GET /report/{task_id}
\* get_report is a plain def: it runs in a worker thread, at any time.
get_report(t) ==
    /\ t \in DOMAIN tasks
    /\ report' = [task_id |-> t, status |-> tasks[t].status,
                  logs |-> tasks[t].logs, result |-> tasks[t].result]
    /\ UNCHANGED <<tasks, issued, response, pc, loop, res, exc, collection,
                   gen, events>>
    /\ UNCHANGED graphVars

\* ------------------------------------------------------------ GraphManager
\* Number of add_claim / add_contradiction calls in a run of the model.
MaxCalls == 3

\* Node keys (source URLs and claim texts), evidence strengths, verifications.
Keys == {"k1", "k2"}
Weights == {"0.4", "0.9"}
Verifications == {"verified", "contradicted"}

\* nx.DiGraph(): nodes and edges are dicts keyed by node and by (u, v); each
\* holds an attribute dict. "" stands for an attribute that is not set.
EmptyGraph == [nodes |-> {}, edges |-> {}]
NoFile == [exists |-> FALSE, bytes |-> <<>>]
NoCall == [op |-> "none", a |-> "", b |-> "", weight |-> "", verification |-> "",
           outcome |-> "", remote |-> ""]

NodesAt(G, n) == {x \in G.nodes : x.key = n}
EdgesAt(G, u, v) == {e \in G.edges : e.u = u /\ e.v = v}

\* dict.update: the attributes given replace the old ones, the others stay.
Updated(old, new) == IF new = "" THEN old ELSE new

\* DiGraph.add_node that adds a second entry instead of updating the node.
AddNodeNoMerge(G, n, type, verification) ==
    [G EXCEPT !.nodes = @ \cup {[key |-> n, type |-> type,
                                 verification |-> verification]}]

\* DiGraph.add_node(n, **attr): create the node or update its attributes.
AddNode(G, n, type, verification) ==
    LET old == IF NodesAt(G, n) = {}
               THEN [key |-> n, type |-> "", verification |-> ""]
               ELSE CHOOSE x \in NodesAt(G, n) : TRUE
        new == [key |-> n, type |-> Updated(old.type, type),
                verification |-> Updated(old.verification, verification)]
    IN [G EXCEPT !.nodes = (@ \ NodesAt(G, n)) \cup {new}]

\* DiGraph.add_edge(u, v, **attr): create the missing end nodes without
\* attributes, then create the edge or update its attributes.
AddEdge(G, u, v, weight, relation) ==
    LET G1 == AddNode(AddNode(G, u, "", ""), v, "", "")
        old == IF EdgesAt(G1, u, v) = {}
               THEN [u |-> u, v |-> v, weight |-> "", relation |-> ""]
               ELSE CHOOSE e \in EdgesAt(G1, u, v) : TRUE
        new == [u |-> u, v |-> v, weight |-> Updated(old.weight, weight),
                relation |-> Updated(old.relation, relation)]
    IN [G1 EXCEPT !.edges = (@ \ EdgesAt(G1, u, v)) \cup {new}]

\* pickle: the graph is written as the list of its nodes and the list of its
\* edges, and read back by inserting them into a new graph.
RECURSIVE Listed(_)
Listed(S) ==
    IF S = {} THEN <<>>
    ELSE LET x == CHOOSE y \in S : TRUE IN <<x>> \o Listed(S \ {x})

PickleDump(G) == [nodes |-> Listed(G.nodes), edges |-> Listed(G.edges)]
PickleLoad(bytes) == [nodes |-> Range(bytes.nodes), edges |-> Range(bytes.edges)]

\* open(graph_file, 'wb') before anything is written: an empty file.
OpenedFile == [exists |-> TRUE, bytes |-> <<>>]
Truncated(file) == file.exists /\ DOMAIN file.bytes = {}

\* _save_nx that leaves an existing file alone.
SaveNxOnce(G) ==
    IF graph_file.exists THEN graph_file
    ELSE [exists |-> TRUE, bytes |-> PickleDump(G)]

\* _save_nx: open(graph_file, 'wb'); pickle.dump(nx_graph, f)
SaveNx(G) == [exists |-> TRUE, bytes |-> PickleDump(G)]

\* __init__, lines 43-53: GraphDatabase.driver(...) raises and the driver
\* stays None, or it returns and verify_connectivity() raises or returns: the
\* driver attribute is assigned before the connectivity check.
InitOutcomes == {"driver failed", "verify failed", "connected"}
DriverAfter(outcome) == outcome # "driver failed"

\* What the remote write of a call does: nothing without a driver, else it
\* goes through or raises.
RemoteOutcomes == IF neo4j_driver THEN {"ok", "failed"} ELSE {"skipped"}

\* GraphManager.__init__ of a new process: load graph_data.pkl when it is
\* there, then try to connect to Neo4j.
GraphManagerInit ==
    /\ nx_graph' = IF graph_file.exists /\ ~Truncated(graph_file)
                   THEN PickleLoad(graph_file.bytes)
                   ELSE EmptyGraph  \* no file, or pickle.load raised
    /\ \E o \in InitOutcomes :
         /\ neo4j_init' = o
         /\ neo4j_driver' = DriverAfter(o)
    /\ last_call' = [NoCall EXCEPT !.op = "init"]
    /\ repeated' = FALSE
    /\ UNCHANGED <<graph_file, ncalls, thr>>
    /\ UNCHANGED taskVars

\* add_claim: the three NetworkX updates, _save_nx, then the Neo4j write,
\* whose failure is caught and logged.
add_claim(source, claim, evidence_strength, verification) ==
    /\ ncalls < MaxCalls
    /\ LET G1 == AddNode(nx_graph, source, "source", "")
           G2 == AddNode(G1, claim, "claim", verification)
           G3 == AddEdge(G2, source, claim, evidence_strength, "asserts")
       IN /\ nx_graph' = G3
          /\ graph_file' = SaveNx(G3)
    /\ \E r \in RemoteOutcomes :
         last_call' = [op |-> "add_claim", a |-> source, b |-> claim,
                       weight |-> evidence_strength,
                       verification |-> verification,
                       outcome |-> "returned", remote |-> r]
    /\ repeated' = /\ last_call.op = "add_claim"
                   /\ last_call.a = source /\ last_call.b = claim
                   /\ last_call.weight # evidence_strength
                   /\ last_call.verification # verification
    /\ ncalls' = ncalls + 1
    /\ UNCHANGED <<neo4j_driver, neo4j_init, thr>>
    /\ UNCHANGED taskVars

\* add_contradiction: add_edge, _save_nx, then the Neo4j write, which is not
\* inside a try block.
add_contradiction(claim1, claim2) ==
    /\ ncalls < MaxCalls
    /\ LET G1 == AddEdge(nx_graph, claim1, claim2, "", "contradicts")
       IN /\ nx_graph' = G1
          /\ graph_file' = SaveNx(G1)
    /\ \E r \in RemoteOutcomes :
         last_call' = [op |-> "add_contradiction", a |-> claim1, b |-> claim2,
                       weight |-> "", verification |-> "",
                       outcome |-> IF r = "failed" THEN "raised" ELSE "returned",
                       remote |-> r]
    /\ repeated' = FALSE
    /\ ncalls' = ncalls + 1
    /\ UNCHANGED <<neo4j_driver, neo4j_init, thr>>
    /\ UNCHANGED taskVars

\* --------------------------------- GraphManager called from several threads
\* crew.run runs in a worker thread per task (asyncio.to_thread), so calls of
\* add_claim and add_contradiction overlap; neither takes a lock. A thread
\* runs one NetworkX call, the open, the dump or the close of _save_nx at a
\* time.
NumThreads == 2
Threads == 1..NumThreads

IdleThread == [pc |-> "idle", op |-> "", a |-> "", b |-> "", weight |-> "",
               verification |-> "", buf |-> <<>>, outcome |-> ""]

\* A thread enters add_claim(source, claim, evidence_strength, verification).
CallAddClaim(i, source, claim, evidence_strength, verification) ==
    /\ thr[i].pc = "idle"
    /\ thr' = [thr EXCEPT ![i] = [IdleThread EXCEPT
                  !.pc = "node1", !.op = "add_claim", !.a = source,
                  !.b = claim, !.weight = evidence_strength,
                  !.verification = verification]]
    /\ UNCHANGED <<nx_graph, graph_file, neo4j_driver, neo4j_init, ncalls,
                   repeated, last_call>>
    /\ UNCHANGED taskVars

\* A thread enters add_contradiction(claim1, claim2).
CallAddContradiction(i, claim1, claim2) ==
    /\ thr[i].pc = "idle"
    /\ thr' = [thr EXCEPT ![i] = [IdleThread EXCEPT
                  !.pc = "edge", !.op = "add_contradiction", !.a = claim1,
                  !.b = claim2]]
    /\ UNCHANGED <<nx_graph, graph_file, neo4j_driver, neo4j_init, ncalls,
                   repeated, last_call>>
    /\ UNCHANGED taskVars

\* db.py line 57: self.nx_graph.add_node(source, type="source")
ThreadAddSource(i) ==
    /\ thr[i].pc = "node1"
    /\ nx_graph' = AddNode(nx_graph, thr[i].a, "source", "")
    /\ thr' = [thr EXCEPT ![i].pc = "node2"]
    /\ UNCHANGED <<graph_file, neo4j_driver, neo4j_init, ncalls, repeated,
                   last_call>>
    /\ UNCHANGED taskVars

\* db.py line 58: self.nx_graph.add_node(claim, type="claim", verification=...)
ThreadAddClaimNode(i) ==
    /\ thr[i].pc = "node2"
    /\ nx_graph' = AddNode(nx_graph, thr[i].b, "claim", thr[i].verification)
    /\ thr' = [thr EXCEPT ![i].pc = "edge"]
    /\ UNCHANGED <<graph_file, neo4j_driver, neo4j_init, ncalls, repeated,
                   last_call>>
    /\ UNCHANGED taskVars

\* db.py line 59 (add_claim) or line 79 (add_contradiction): add_edge
ThreadAddEdge(i) ==
    /\ thr[i].pc = "edge"
    /\ nx_graph' = IF thr[i].op = "add_claim"
                   THEN AddEdge(nx_graph, thr[i].a, thr[i].b, thr[i].weight,
                                "asserts")
                   ELSE AddEdge(nx_graph, thr[i].a, thr[i].b, "", "contradicts")
    /\ thr' = [thr EXCEPT ![i].pc = "open"]
    /\ UNCHANGED <<graph_file, neo4j_driver, neo4j_init, ncalls, repeated,
                   last_call>>
    /\ UNCHANGED taskVars

\* _save_nx, line 96: open(self.graph_file, 'wb') truncates the file.
ThreadOpen(i) ==
    /\ thr[i].pc = "open"
    /\ graph_file' = OpenedFile
    /\ thr' = [thr EXCEPT ![i].pc = "dump"]
    /\ UNCHANGED <<nx_graph, neo4j_driver, neo4j_init, ncalls, repeated,
                   last_call>>
    /\ UNCHANGED taskVars

\* _save_nx, line 97: pickle.dump(self.nx_graph, f) writes the graph as it is
\* now into the buffer of this thread's file object.
ThreadDump(i) ==
    /\ thr[i].pc = "dump"
    /\ thr' = [thr EXCEPT ![i].pc = "close", ![i].buf = PickleDump(nx_graph)]
    /\ UNCHANGED <<nx_graph, graph_file, neo4j_driver, neo4j_init, ncalls,
                   repeated, last_call>>
    /\ UNCHANGED taskVars

\* _save_nx, end of the with block: the buffer is flushed from offset 0 and
\* the file closed; a load reads the pickle the file now starts with.
ThreadClose(i) ==
    /\ thr[i].pc = "close"
    /\ graph_file' = [exists |-> TRUE, bytes |-> thr[i].buf]
    /\ thr' = [thr EXCEPT ![i].pc = "remote"]
    /\ UNCHANGED <<nx_graph, neo4j_driver, neo4j_init, ncalls, repeated,
                   last_call>>
    /\ UNCHANGED taskVars

\* The Neo4j write of the call (lines 63-76, 82-90), then the call is over.
ThreadRemote(i) ==
    /\ thr[i].pc = "remote"
    /\ \E r \in RemoteOutcomes :
         thr' = [thr EXCEPT ![i].pc = "done",
                            ![i].outcome =
                                IF r = "failed" /\ thr[i].op = "add_contradiction"
                                THEN "raised" ELSE "returned"]
    /\ UNCHANGED <<nx_graph, graph_file, neo4j_driver, neo4j_init, ncalls,
                   repeated, last_call>>
    /\ UNCHANGED taskVars

\* ------------------------------------------------------------ specification
TaskInit ==
    /\ tasks = <<>>
    /\ issued = <<>>
    /\ response = NoResponse
    /\ pc = [t \in TaskIds |-> "unborn"]
    /\ loop = 0
    /\ res = [t \in TaskIds |-> ""]
    /\ exc = [t \in TaskIds |-> ""]
    /\ collection = <<>>
    /\ gen = NoGen
    /\ events = <<>>
    /\ report = NoReport

\* graph_db = GraphManager() on a machine without graph_data.pkl.
GraphInit ==
    /\ nx_graph = EmptyGraph
    /\ graph_file = NoFile
    /\ neo4j_init \in InitOutcomes
    /\ neo4j_driver = DriverAfter(neo4j_init)
    /\ ncalls = 0
    /\ repeated = FALSE
    /\ last_call = [NoCall EXCEPT !.op = "init"]
    /\ thr = [i \in Threads |-> IdleThread]

Init ==
    /\ TaskInit
    /\ GraphInit
    /\ neo4j_init = "connected"

Next ==
    \/ \E topic \in Topics : start_research_rejected(topic)
    \/ \E topic \in Topics : start_research(topic)
    \/ \E t \in TaskIds : Line32(t)
    \/ \E t \in TaskIds : Line33(t)
    \/ \E t \in TaskIds : Line40(t)
    \/ \E t \in TaskIds : KickoffReturns(t)
    \/ \E t \in TaskIds : KickoffRaises(t)
    \/ \E t \in TaskIds : CollectionAdd(t)
    \/ \E t \in TaskIds : CollectionAddRaises(t)
    \/ \E t \in TaskIds : Line42(t)
    \/ \E t \in TaskIds : Line43(t)
    \/ \E t \in TaskIds : Line43Raises(t)
    \/ \E t \in TaskIds : Line44(t)
    \/ \E t \in TaskIds : Line48(t)
    \/ \E t \in TaskIds : Line49(t)
    \/ \E t \in TaskIds : stream_status(t)
    \/ GenPoll
    \/ GenResumeLog
    \/ GenResumeStatus
    \/ GenResumeResult
    \/ GenWake
    \/ \E t \in TaskIds : get_report(t)

Spec == Init /\ [][Next]_vars

\* The stream under fair scheduling. GET /report only reads the registry, so
\* it is left out here.
StreamNext ==
    \/ \E topic \in Topics : start_research_rejected(topic)
    \/ \E topic \in Topics : start_research(topic)
    \/ \E t \in TaskIds : Line32(t)
    \/ \E t \in TaskIds : Line33(t)
    \/ \E t \in TaskIds : Line40(t)
    \/ \E t \in TaskIds : KickoffReturns(t)
    \/ \E t \in TaskIds : KickoffRaises(t)
    \/ \E t \in TaskIds : CollectionAdd(t)
    \/ \E t \in TaskIds : CollectionAddRaises(t)
    \/ \E t \in TaskIds : Line42(t)
    \/ \E t \in TaskIds : Line43(t)
    \/ \E t \in TaskIds : Line43Raises(t)
    \/ \E t \in TaskIds : Line44(t)
    \/ \E t \in TaskIds : Line48(t)
    \/ \E t \in TaskIds : Line49(t)
    \/ \E t \in TaskIds : stream_status(t)
    \/ GenPoll
    \/ GenResumeLog
    \/ GenResumeStatus
    \/ GenResumeResult
    \/ GenWake

\* The event loop runs every ready coroutine (background tasks, the
\* generator of a subscriber that keeps consuming, the timer of sleep); the
\* worker thread of crew.run is scheduled, and its calls return or raise.
RunCrewTaskStep(t) ==
    \/ Line32(t) \/ Line33(t) \/ Line40(t)
    \/ KickoffReturns(t) \/ KickoffRaises(t)
    \/ CollectionAdd(t) \/ CollectionAddRaises(t)
    \/ Line42(t) \/ Line43(t) \/ Line43Raises(t) \/ Line44(t)
    \/ Line48(t) \/ Line49(t)

GeneratorStep ==
    GenPoll \/ GenResumeLog \/ GenResumeStatus \/ GenResumeResult \/ GenWake

Fairness ==
    /\ \A t \in TaskIds : WF_vars(RunCrewTaskStep(t))
    /\ WF_vars(GeneratorStep)

StreamSpec == Init /\ [][StreamNext]_vars /\ Fairness

\* The claim graph store called from NumThreads worker threads at once.
ConcNext ==
    \/ \E i \in Threads, s \in Keys, c \in Keys, w \in Weights,
          v \in Verifications : CallAddClaim(i, s, c, w, v)
    \/ \E i \in Threads, c1 \in Keys, c2 \in Keys :
          CallAddContradiction(i, c1, c2)
    \/ \E i \in Threads : ThreadAddSource(i)
    \/ \E i \in Threads : ThreadAddClaimNode(i)
    \/ \E i \in Threads : ThreadAddEdge(i)
    \/ \E i \in Threads : ThreadOpen(i)
    \/ \E i \in Threads : ThreadDump(i)
    \/ \E i \in Threads : ThreadClose(i)
    \/ \E i \in Threads : ThreadRemote(i)

\* The claim graph store alone, its calls made one after the other.
GraphSpecInit == TaskInit /\ GraphInit

ConcSpec == GraphSpecInit /\ [][ConcNext]_vars

GraphNext ==
    \/ \E s \in Keys, c \in Keys, w \in Weights, v \in Verifications :
         add_claim(s, c, w, v)
    \/ \E c1 \in Keys, c2 \in Keys : add_contradiction(c1, c2)
    \/ GraphManagerInit

GraphSpec == GraphSpecInit /\ [][GraphNext]_vars

\* ================================================================== claims
RunnerErrors == KickoffErrors \cup StoreErrors

\* The runner call (crew.run) of task t raised / returned.
RunnerRaised(t) == exc[t] \in RunnerErrors
RunnerReturned(t) ==
    \/ pc[t] \in {"l42", "l43", "l44"}
    \/ pc[t] \in {"l48", "l49", "done"} /\ exc[t] \notin RunnerErrors

DocsOf(t) == {i \in 1..Len(collection) : collection[i].task_id = t}

StatusOrder == {<<"pending", "running">>, <<"running", "completed">>,
                <<"running", "failed">>}

\* C1: in every step the status of every task stays as it is or moves along
\* pending -> running -> {completed, failed}; a completed or failed task
\* never changes status again.
C1_StatusMonotonic ==
    [][\A t \in DOMAIN tasks :
          \/ tasks'[t].status = tasks[t].status
          \/ <<tasks[t].status, tasks'[t].status>> \in StatusOrder]_vars

\* The lines the subscriber received as log events, in order.
StreamedLines ==
    LET logEvents == SelectSeq(events, LAMBDA e : e.event = "log")
    IN [i \in 1..Len(logEvents) |-> logEvents[i].data]

StatusEmitted == \E i \in 1..Len(events) : events[i].event = "status"

\* C2: once the status event is emitted, the log events the subscriber got
\* are exactly the lines of the task's log, each once and in append order.
C2_EveryLineStreamedOnce ==
    StatusEmitted => StreamedLines = tasks[gen.task].logs

\* What a reader may see: the log line of a status is there with the status.
ReaderOK(status, logs) ==
    /\ status = "running" => StartLine \in Range(logs)
    /\ status = "completed" => SuccessLine \in Range(logs)
    /\ status = "failed" => \E l \in Range(logs) : l.text = "Error: "

\* C3: neither GET /report (worker thread) nor the stream (event loop) reads
\* a status whose log line is not yet in the log.
C3_StatusNeverAheadOfLog ==
    /\ report.task_id # 0 => ReaderOK(report.status, report.logs)
    /\ (gen.pc # "none" /\ loop = 0) =>
           ReaderOK(tasks[gen.task].status, tasks[gen.task].logs)

StatusIdx == {i \in 1..Len(events) : events[i].event = "status"}
ResultIdx == {i \in 1..Len(events) : events[i].event = "result"}

\* C4: at most one status event, carrying the terminal status of the task;
\* after it comes nothing but one result event, directly, and only when the
\* record has a result; a stream that ended emitted the status event, and the
\* result event iff the record has a result.
C4_StatusThenResultThenEnd ==
    /\ Cardinality(StatusIdx) <= 1
    /\ \A i \in StatusIdx :
         /\ tasks[gen.task].status \in Terminal
         /\ events[i].data.text = tasks[gen.task].status
         /\ \A j \in (i + 1)..Len(events) : j = i + 1 /\ j \in ResultIdx
    /\ \A j \in ResultIdx :
         /\ j - 1 \in StatusIdx
         /\ tasks[gen.task].result.present
         /\ tasks[gen.task].status = "completed"
         /\ events[j].data.arg = tasks[gen.task].result.output
    /\ gen.pc = "ended" =>
         /\ Cardinality(StatusIdx) = 1
         /\ (ResultIdx # {}) <=> tasks[gen.task].result.present
         /\ tasks[gen.task].result.present <=> tasks[gen.task].status = "completed"

C4_Witness ==
    /\ gen.pc = "ended"
    /\ Len(events) >= 3
    /\ events[Len(events)].event = "result"
    /\ events[Len(events) - 1].event = "status"

\* C5: when the runner call of a task raised, no document of the task is in
\* the Object Store, and once run_crew_task is over the task is failed, its
\* log holds the line with the failure message and its result is absent.
C5_RunnerRaisedMeansFailed ==
    \A t \in DOMAIN tasks :
        RunnerRaised(t) =>
            /\ DocsOf(t) = {}
            /\ pc[t] = "done" =>
                 /\ tasks[t].status = "failed"
                 /\ \E l \in Range(tasks[t].logs) :
                        l.text = "Error: " /\ l.arg = exc[t]
                 /\ tasks[t].result = NoResult

C5_Witness ==
    \E t \in DOMAIN tasks, u \in DOMAIN tasks :
        /\ pc[t] = "done" /\ exc[t] \in StoreErrors
        /\ pc[u] = "done" /\ exc[u] \in KickoffErrors

\* C6: when the runner call of a task returned, run_crew_task ends with the
\* task completed, a result on the record and exactly one document of the
\* task in the Object Store.
C6_RunnerReturnedMeansCompleted ==
    \A t \in DOMAIN tasks :
        (RunnerReturned(t) /\ pc[t] = "done") =>
            /\ tasks[t].status = "completed"
            /\ tasks[t].result.present
            /\ Cardinality(DocsOf(t)) = 1

\* C7: a document of a task is in the Object Store only while the task is
\* completed.
C7_StoredOnlyWhenCompleted ==
    \A i \in 1..Len(collection) :
        tasks[collection[i].task_id].status = "completed"

\* C8: the ids POST /research returned are pairwise different and are the
\* keys of the registry; the record returned is pending with an empty log and
\* no result, and so is every record whose run_crew_task has not started; a
\* record that left pending has started.
C8_FreshPendingTask ==
    /\ \A i, j \in 1..Len(issued) : i # j => issued[i] # issued[j]
    /\ Range(issued) = DOMAIN tasks
    /\ response.code = 200 =>
         /\ response.task_id = issued[Len(issued)]
         /\ response.status = "pending"
         /\ response.logs = <<>>
         /\ response.result = NoResult
    /\ \A t \in DOMAIN tasks :
         /\ pc[t] = "l32" =>
              /\ tasks[t].status = "pending"
              /\ tasks[t].logs = <<>>
              /\ tasks[t].result = NoResult
         /\ tasks[t].status # "pending" => pc[t] \notin {"unborn", "l32"}

C8_Witness ==
    /\ Len(issued) = 2
    /\ pc[issued[1]] = "done"
    /\ pc[issued[2]] = "l32"
    /\ response.task_id = issued[2]

\* C9: after add_claim(source, claim, w, v) directly follows an add_claim on
\* the same source and claim with another weight and verification, the graph
\* has one node with key source, one node with key claim, of type claim with
\* verification v, and one edge from source to claim, asserts with weight w.
C9_AddClaimIdempotent ==
    (last_call.op = "add_claim" /\ repeated) =>
        /\ Cardinality(NodesAt(nx_graph, last_call.a)) = 1
        /\ Cardinality(NodesAt(nx_graph, last_call.b)) = 1
        /\ \A x \in NodesAt(nx_graph, last_call.b) :
             x.type = "claim" /\ x.verification = last_call.verification
        /\ last_call.a # last_call.b =>
             \A x \in NodesAt(nx_graph, last_call.a) : x.type = "source"
        /\ Cardinality(EdgesAt(nx_graph, last_call.a, last_call.b)) = 1
        /\ \A e \in EdgesAt(nx_graph, last_call.a, last_call.b) :
             e.relation = "asserts" /\ e.weight = last_call.weight

C9_Witness ==
    /\ last_call.op = "add_claim"
    /\ repeated
    /\ last_call.a # last_call.b

CallStep == ncalls' = ncalls + 1
IsCall == last_call.op \in {"add_claim", "add_contradiction"}

\* The local graph holds what the last call wrote, and so does the file.
MutationStored ==
    /\ \E e \in EdgesAt(nx_graph, last_call.a, last_call.b) :
         e.relation = IF last_call.op = "add_claim" THEN "asserts"
                      ELSE "contradicts"
    /\ graph_file.exists
    /\ PickleLoad(graph_file.bytes) = nx_graph

\* C11: a call whose remote write raised still returned normally, with the
\* local graph mutated and persisted.
C11_RemoteFailureSwallowed ==
    (IsCall /\ last_call.remote = "failed") =>
        last_call.outcome = "returned" /\ MutationStored

\* C12: when the driver creation or the connectivity check failed in
\* __init__, every later call returns without error and the local graph
\* holds its mutation.
C12_LocalWorksWithoutRemote ==
    (IsCall /\ neo4j_init # "connected") =>
        last_call.outcome = "returned" /\ MutationStored

\* C14: a step of add_contradiction leaves the node set of the local graph as
\* it was.
C14_ContradictionCreatesNoNode ==
    [][(CallStep /\ last_call'.op = "add_contradiction") =>
          nx_graph'.nodes = nx_graph.nodes]_vars

ContradictsBetween(G, a, b) ==
    {e \in G.edges : e.relation = "contradicts" /\ {e.u, e.v} = {a, b}}

\* C15: add_contradiction(a, b) leaves the graph add_contradiction(b, a)
\* would have left, and there is never more than one contradicts edge
\* between two keys.
C15_ContradictsUndirected ==
    [][(CallStep /\ last_call'.op = "add_contradiction") =>
          /\ nx_graph' = AddEdge(nx_graph, last_call'.b, last_call'.a, "",
                                 "contradicts")
          /\ \A a \in Keys, b \in Keys :
               Cardinality(ContradictsBetween(nx_graph', a, b)) <= 1]_vars

\* C18: when the connection failed in __init__, no later call attempts a
\* remote session or write.
C18_LocalOnlyAfterFailedInit ==
    (IsCall /\ neo4j_init # "connected") => last_call.remote = "skipped"

TypeOf(G, n) == {x.type : x \in NodesAt(G, n)}

\* C19: after every step each node is tagged source or claim, each claim
\* node has a verification, and a node tagged source is still tagged source.
C19_NodesTyped ==
    [][/\ \A x \in nx_graph'.nodes :
            /\ x.type \in {"source", "claim"}
            /\ x.type = "claim" => x.verification # ""
       /\ \A x \in nx_graph.nodes :
            x.type = "source" => TypeOf(nx_graph', x.key) = {"source"}]_vars

RelationsAt(G, u, v) == {e.relation : e \in EdgesAt(G, u, v)}

\* C20: an edge that is asserts is still asserts after every step, and an
\* edge that is contradicts is never turned into asserts.
C20_RelationKept ==
    [][\A e \in nx_graph.edges :
          /\ e.relation = "asserts" =>
               "asserts" \in RelationsAt(nx_graph', e.u, e.v)
          /\ e.relation = "contradicts" =>
               "asserts" \notin RelationsAt(nx_graph', e.u, e.v)]_vars

\* C17: once the stream has ended with a status event, every GET /report of
\* that task that follows returns a record with the status of that event.
C17_ReportMatchesStreamedStatus ==
    [][(gen.pc = "ended" /\ report' # report /\ report'.task_id = gen.task) =>
          \A i \in StatusIdx : report'.status = events[i].data.text]_vars

C17_Witness ==
    /\ gen.pc = "ended"
    /\ StatusIdx # {}
    /\ report.task_id = gen.task
    /\ report.logs = tasks[gen.task].logs
    /\ \A i \in StatusIdx : report.status = events[i].data.text

InSection(i) ==
    \/ thr[i].pc \in {"open", "dump", "close"}
    \/ thr[i].op = "add_claim" /\ thr[i].pc \in {"node2", "edge"}

AllDone == \A i \in Threads : thr[i].pc = "done"

\* Once every call is over the file is a whole pickle of the final graph and
\* the graph holds the edge of every call.
FileIsFinalGraph ==
    AllDone =>
        /\ graph_file.exists /\ ~Truncated(graph_file)
        /\ PickleLoad(graph_file.bytes) = nx_graph
        /\ \A i \in Threads : EdgesAt(nx_graph, thr[i].a, thr[i].b) # {}

\* C13: no two threads are inside the mutate-then-serialize section at the
\* same time, and once all calls are over the file is the final graph with
\* no update lost.
C13_MutateAndSaveExclusive ==
    /\ \A i \in Threads, j \in Threads :
         i # j => ~(InSection(i) /\ InSection(j))
    /\ FileIsFinalGraph

====
